---- MODULE Spec2Model ----
(***************************************************************************)
(* Out-of-fold stacking of Ensemble/KA_stacking.py:                        *)
(* ka_stacking_generalization with run_lgbm_stacker, run_xgboost_stacker   *)
(* and run_other_stackers.                                                 *)
(*                                                                         *)
(* Rows, folds, models and columns are numbered from 1 (Python: from 0).   *)
(* Floating-point numbers are exact rationals <<n, d>> in lowest terms,    *)
(* d > 0.  numpy arrays live in a heap of objects [dtype, a]; every cell   *)
(* of an array carries its value v and the number w of item assignments    *)
(* that stored into it.  Index arrays of a fold are sets of row numbers    *)
(* (KFold yields index arrays without repetitions).                        *)
(***************************************************************************)
EXTENDS Integers, Sequences, FiniteSets, TLC

VARIABLES self, heap, base_models, call, log, results, budget

vars == <<self, heap, base_models, call, log, results, budget>>

(* ------------------------------ bounds --------------------------------- *)
MaxTrain == 3
MaxTest == 3
MaxFolds == 3
MaxModels == 2
MaxCalls == 2
MaxRepeatRows == 2

(* ------------------------- exact arithmetic ---------------------------- *)
Abs(n) == IF n < 0 THEN -n ELSE n

RECURSIVE GCD(_, _)
GCD(a, b) == IF b = 0 THEN a ELSE GCD(b, a % b)

Rat(n, d) ==
    LET g == GCD(Abs(n), Abs(d))
        s == IF d < 0 THEN -1 ELSE 1
    IN  <<(s * n) \div g, (s * d) \div g>>

RInt(n) == <<n, 1>>
RAdd(p, q) == Rat(p[1] * q[2] + q[1] * p[2], p[2] * q[2])
RDiv(p, k) == Rat(p[1], p[2] * k)
\* C conversion of a float to an integer: the fraction is dropped (toward 0)
Trunc(q) == IF q[1] >= 0 THEN q[1] \div q[2] ELSE -((-q[1]) \div q[2])

RECURSIVE SumSeq(_)
SumSeq(s) == IF s = <<>> THEN RInt(0) ELSE RAdd(s[1], SumSeq(Tail(s)))

RECURSIVE SumOver(_, _)
SumOver(f, S) ==
    IF S = {} THEN 0
    ELSE LET x == CHOOSE x \in S : TRUE IN f[x] + SumOver(f, S \ {x})

(* ------------------------------ numpy ---------------------------------- *)
\* value stored into an array of the given element type
AsType(dtype, q) == IF dtype = "int64" THEN RInt(Trunc(q)) ELSE q

Cell0 == [v |-> RInt(0), w |-> 0]
Put(dtype, c, q) == [v |-> AsType(dtype, q), w |-> c.w + 1]

zeros2(n, m) == [dtype |-> "float64", a |-> [r \in 1..n |-> [c \in 1..m |-> Cell0]]]
zeros_like(dtype, y) == [dtype |-> dtype, a |-> [r \in 1..Len(y) |-> Cell0]]

\* A[idx] = vals      (vals: one value per row of idx)
SetRows(A, idx, vals) ==
    [A EXCEPT !.a = [r \in 1..Len(A.a) |->
        IF r \in idx THEN Put(A.dtype, A.a[r], vals[r]) ELSE A.a[r]]]

\* A[idx, c] = vals
SetRowsCol(A, idx, c, vals) ==
    [A EXCEPT !.a = [r \in 1..Len(A.a) |->
        IF r \in idx THEN [A.a[r] EXCEPT ![c] = Put(A.dtype, @, vals[r])]
        ELSE A.a[r]]]

\* A[:, c] = vec is accepted when vec has one entry per row of A, or one entry
Broadcasts(n, vec) == Len(vec) = n \/ Len(vec) = 1

\* A[:, c] = vec
SetCol(A, c, vec) ==
    [A EXCEPT !.a = [r \in 1..Len(A.a) |->
        [A.a[r] EXCEPT ![c] = Put(A.dtype, @, IF Len(vec) = 1 THEN vec[1] ELSE vec[r])]]]

RowValues(row) == [c \in 1..Len(row) |-> row[c].v]

\* A.sum(axis=1) / n : a new array
SumAxis1Over(A, n) ==
    [dtype |-> "float64",
     a |-> [r \in 1..Len(A.a) |-> [v |-> RDiv(SumSeq(RowValues(A.a[r])), n), w |-> 0]]]

\* mutant: the last fold's column in place of the mean of the columns
MeanAxis1LastFold(A) == [r \in 1..Len(A.a) |-> A.a[r][Len(A.a[r])].v]

\* A.mean(1) : one value per row
MeanAxis1(A) ==
    [r \in 1..Len(A.a) |-> RDiv(SumSeq(RowValues(A.a[r])), Len(A.a[r]))]

\* the smallest address not in use
NewId(h) == CHOOSE n \in 1..(Cardinality(DOMAIN h) + 1) :
                n \notin DOMAIN h /\ \A m \in 1..(n - 1) : m \in DOMAIN h

Alloc(h, obj) == [k \in DOMAIN h \cup {NewId(h)} |-> IF k \in DOMAIN h THEN h[k] ELSE obj]

(* ------------------------------ learners ------------------------------- *)
\* What a learner predicts depends on its kind, on the targets of the rows it
\* was last fitted on and on the feature of the row it predicts for.
Kinds == {"mean", "shift"}
NotFitted == [fitted |-> FALSE, rows |-> {}]

MeanOf(y, rows) == Rat(SumOver(y, rows), Cardinality(rows))

Predict(kind, y, rows, x) ==
    IF kind = "mean" THEN MeanOf(y, rows) ELSE RAdd(MeanOf(y, rows), RInt(x))

\* the exceptions a learner's fit or predict may raise on any call
LibErrors == {"LibError"}


\* mutant: a fit that adds to what the estimator was fitted on before
FitStateWarm(old, rows) == [fitted |-> TRUE, rows |-> old.rows \cup rows]

\* model.fit(X, y) on an estimator: the fitted state is replaced
FitState(old, rows) == [fitted |-> TRUE, rows |-> rows]

\* predictions for the rows idx of the feature matrix X: one value per row
PredictRows(kind, y, state, X, idx) ==
    [r \in idx |-> Predict(kind, y, state.rows, X[r])]

\* predictions for every row of X, as a vector
PredictAll(kind, y, state, X) ==
    [t \in 1..Len(X) |-> Predict(kind, y, state.rows, X[t])]

(* ------------------------------- inputs -------------------------------- *)
Targets == {0, 1}
Dtypes == {"int64", "float64"}

\* feature of row r of a matrix of n rows
FeatureRows(n) == [r \in 1..n |-> 2 * r - n - 1]

\* KFold: the k validation sets are the classes of an assignment of the rows
\* to the folds, and a fold trains on the rows outside its validation set
KFoldOf(n, k, a) ==
    [j \in 1..k |-> [train |-> {r \in 1..n : a[r] # j}, val |-> {r \in 1..n : a[r] = j}]]

KFolds(n) ==
    UNION {{KFoldOf(n, k, a) : a \in {b \in [1..n -> 1..k] : \A j \in 1..k : \E r \in 1..n : b[r] = j}}
           : k \in 1..MaxFolds}

\* one fold that validates on the rows it trains on
RefitFold(n) == <<[train |-> 1..n, val |-> 1..n]>>

\* one fold that holds some rows out and leaves the others without a prediction
HoldOuts(n) ==
    {<<[train |-> (1..n) \ V, val |-> V]>> : V \in (SUBSET (1..n)) \ {{}, 1..n}}

Partitions(n) == KFolds(n) \cup {RefitFold(n)} \cup HoldOuts(n)

KFoldObject(folds) == [n_folds |-> Len(folds), folds |-> folds]

ModelLists ==
    UNION {[1..m -> {[kind |-> k, state |-> NotFitted] : k \in Kinds}] : m \in 0..MaxModels}

\* the orchestrators on which repeated calls are explored
Repeatable(o) == Len(o.y) <= MaxRepeatRows

(* ------------------------------- state --------------------------------- *)
NoCall ==
    [op |-> "none", pc |-> "idle", params |-> "none", i |-> 0, j |-> 0,
     S_train |-> 0, S_test |-> 0, S_test_i |-> 0, model_fold |-> NotFitted,
     error |-> "none"]

\* ka_stacking_generalization(X_train, X_test, y, kf_n)
Init ==
    /\ \E ntrain \in 1..MaxTrain, ntest \in 1..MaxTest, dtype \in Dtypes :
         \E y \in [1..ntrain -> Targets], folds \in Partitions(ntrain) :
            self = [X_train |-> FeatureRows(ntrain), X_test |-> FeatureRows(ntest),
                    y |-> y, dtype |-> dtype, kf_n |-> KFoldObject(folds)]
    /\ heap = <<>>
    /\ base_models = <<>>
    /\ call = NoCall
    /\ log = <<>>
    /\ results = <<>>
    /\ budget = IF Repeatable(self) THEN MaxCalls ELSE 1

Folds == self.kf_n.folds
\* len(self.kf_n): the number of folds of the KFold object
len_kf_n == self.kf_n.n_folds
TrainRows == 1..Len(self.X_train)
Event(f, m, k, rows, out) == [f |-> f, m |-> m, k |-> k, rows |-> rows, out |-> out]

\* mutant: an exception ends the loop over the folds and the call goes on
RaiseSalvage(c, e) == [c EXCEPT !.pc = IF c.op = "other" THEN "model_end" ELSE "finish"]

\* an exception leaves the function: nothing in it catches one
Raise(c, e) == [c EXCEPT !.pc = "raised", !.error = e]

\* mutant: the training slice also takes the fold's validation rows
TrainSliceLeaky(fold) == fold.train \cup fold.val
\* mutant: the predictions are written at the fold's training rows
ValSliceTrain(fold) == fold.train

\* X_train[train_index], y[train_index] / X_train[val_index], as row numbers
TrainSlice(fold) == fold.train
ValSlice(fold) == fold.val

(* ---------------- run_lgbm_stacker / run_xgboost_stacker ---------------- *)
\* S_train = np.zeros_like(self.y); S_test_i = np.zeros((self.y.shape[0], n_folds))
BoostCall(b, p) ==
    /\ call.pc = "idle"
    /\ budget > 0
    /\ LET S_train == NewId(heap)
           h1 == Alloc(heap, zeros_like(self.dtype, self.y))
           S_test_i == NewId(h1)
           h2 == Alloc(h1, zeros2(Len(self.y), self.kf_n.n_folds))
       IN  /\ heap' = h2
           /\ call' = [NoCall EXCEPT !.op = b, !.params = p, !.i = 1,
                          !.pc = IF Folds = <<>> THEN "finish" ELSE "train",
                          !.S_train = S_train, !.S_test_i = S_test_i]
    /\ budget' = budget - 1
    /\ log' = <<>>
    /\ UNCHANGED <<self, base_models, results>>

\* model_fold = train(params, dtrain=d_train_fold, num_boost_round=num_boost_round)
BoostTrain(b) ==
    /\ call.op = b
    /\ call.pc = "train"
    /\ LET rows == TrainSlice(Folds[call.i])
       IN  \/ \E e \in LibErrors :
                /\ call' = Raise(call, e)
                /\ log' = Append(log, Event("fit", 0, call.i, rows, e))
           \* the library rejects a training set without rows
           \/ /\ rows = {}
              /\ call' = Raise(call, "ValueError")
              /\ log' = Append(log, Event("fit", 0, call.i, rows, "ValueError"))
           \/ /\ rows # {}
              /\ call' = [call EXCEPT !.model_fold = FitState(NotFitted, rows),
                                      !.pc = "predict_val"]
              /\ log' = Append(log, Event("fit", 0, call.i, rows, "ok"))
    /\ UNCHANGED <<self, heap, base_models, results, budget>>

\* mutant: S_train is the target vector itself, not a new array like it
BoostPredictValInPlace(b) ==
    /\ call.op = b
    /\ call.pc = "predict_val"
    /\ LET idx == Folds[call.i].val
           pred == PredictRows(call.params, self.y, call.model_fold, self.X_train, idx)
       IN  self' = [self EXCEPT !.y = [r \in 1..Len(self.y) |->
                        IF r \in idx THEN Trunc(pred[r]) ELSE self.y[r]]]
    /\ call' = [call EXCEPT !.pc = "predict_test"]
    /\ log' = Append(log, Event("predict_val", 0, call.i, call.model_fold.rows, "ok"))
    /\ UNCHANGED <<heap, base_models, results, budget>>

\* S_train[val_index] = model_fold.predict(d_val_fold)
BoostPredictVal(b) ==
    /\ call.op = b
    /\ call.pc = "predict_val"
    /\ LET idx == ValSlice(Folds[call.i])
           rows == call.model_fold.rows
       IN  \/ \E e \in LibErrors :
                /\ call' = Raise(call, e)
                /\ log' = Append(log, Event("predict_val", 0, call.i, rows, e))
                /\ heap' = heap
           \/ /\ call' = [call EXCEPT !.pc = "predict_test"]
              /\ log' = Append(log, Event("predict_val", 0, call.i, rows, "ok"))
              /\ heap' = [heap EXCEPT ![call.S_train] =
                    SetRows(@, idx, PredictRows(call.params, self.y, call.model_fold,
                                                self.X_train, idx))]
    /\ UNCHANGED <<self, base_models, results, budget>>

\* after the body of the loop over the folds
NextFold(c) ==
    [c EXCEPT !.i = @ + 1, !.pc = IF c.i < Len(Folds) THEN "train" ELSE "finish"]

\* S_test_i[:, i] = model_fold.predict(d_test)
BoostPredictTest(b) ==
    /\ call.op = b
    /\ call.pc = "predict_test"
    /\ LET rows == call.model_fold.rows
           pred == PredictAll(call.params, self.y, call.model_fold, self.X_test)
       IN  \/ \E e \in LibErrors :
                /\ call' = Raise(call, e)
                /\ log' = Append(log, Event("predict_test", 0, call.i, rows, e))
                /\ heap' = heap
           \/ /\ log' = Append(log, Event("predict_test", 0, call.i, rows, "ok"))
              /\ IF Broadcasts(Len(heap[call.S_test_i].a), pred)
                 THEN /\ heap' = [heap EXCEPT ![call.S_test_i] = SetCol(@, call.i, pred)]
                      /\ call' = NextFold(call)
                 ELSE /\ heap' = heap
                      /\ call' = Raise(call, "ValueError")
    /\ UNCHANGED <<self, base_models, results, budget>>

\* S_test = S_test_i.sum(axis=1) / n_folds
BoostFinish(b) ==
    /\ call.op = b
    /\ call.pc = "finish"
    /\ heap' = Alloc(heap, SumAxis1Over(heap[call.S_test_i], self.kf_n.n_folds))
    /\ call' = [call EXCEPT !.S_test = NewId(heap), !.pc = "return"]
    /\ UNCHANGED <<self, base_models, log, results, budget>>


\* the arrays still referenced once the frame of the call is gone
Referenced(rs) ==
    {rs[k].S_train : k \in 1..Len(rs)} \cup {rs[k].S_test : k \in 1..Len(rs)}

Collect(h, rs) == [k \in DOMAIN h \cap Referenced(rs) |-> h[k]]

\* the scoped timer around the body of each operation lets an exception pass
tick_tock(e) == e

Returned(c, models) ==
    [op |-> c.op, params |-> c.params, models |-> models, status |-> "returned",
     error |-> "none", S_train |-> c.S_train, S_test |-> c.S_test]

Failed(c, models) ==
    [op |-> c.op, params |-> c.params, models |-> models, status |-> "raised",
     error |-> tick_tock(c.error), S_train |-> 0, S_test |-> 0]

\* return S_train, S_test
BoostReturn(b) ==
    /\ call.op = b
    /\ call.pc = "return"
    /\ results' = Append(results, Returned(call, <<>>))
    /\ heap' = Collect(heap, results')
    /\ call' = NoCall
    /\ log' = <<>>
    /\ UNCHANGED <<self, base_models, budget>>

\* the exception reaches the caller
Unwind(b) ==
    /\ call.op = b
    /\ call.pc = "raised"
    /\ results' = Append(results, Failed(call, IF b = "other" THEN base_models ELSE <<>>))
    /\ heap' = Collect(heap, results')
    /\ call' = NoCall
    /\ log' = <<>>
    /\ UNCHANGED <<self, base_models, budget>>

run_lgbm_stacker == \E p \in Kinds : BoostCall("lgbm", p)
LgbmTrain == BoostTrain("lgbm")
LgbmPredictVal == BoostPredictVal("lgbm")
LgbmPredictTest == BoostPredictTest("lgbm")
LgbmFinish == BoostFinish("lgbm")
LgbmReturn == BoostReturn("lgbm")
LgbmRaise == Unwind("lgbm")

run_xgboost_stacker == \E p \in Kinds : BoostCall("xgboost", p)
XgbTrain == BoostTrain("xgboost")
XgbPredictVal == BoostPredictVal("xgboost")
XgbPredictTest == BoostPredictTest("xgboost")
XgbFinish == BoostFinish("xgboost")
XgbReturn == BoostReturn("xgboost")
XgbRaise == Unwind("xgboost")

(* -------------------------- run_other_stackers -------------------------- *)
KindsOf(ms) == [m \in 1..Len(ms) |-> ms[m].kind]

\* S_train = np.zeros((X_train.shape[0], len(base_models)))
\* S_test = np.zeros((X_test.shape[0], len(base_models)))
\* The caller passes new estimators, or the estimators of its earlier call.
run_other_stackers ==
    /\ call.pc = "idle"
    /\ budget > 0
    /\ \E ms \in (IF base_models = <<>> THEN ModelLists ELSE {base_models}) :
         base_models' = ms
    /\ LET S_train == NewId(heap)
           h1 == Alloc(heap, zeros2(Len(self.X_train), Len(base_models')))
           S_test == NewId(h1)
           h2 == Alloc(h1, zeros2(Len(self.X_test), Len(base_models')))
       IN  /\ heap' = h2
           /\ call' = [NoCall EXCEPT !.op = "other", !.params = KindsOf(base_models'),
                          !.i = 1,
                          !.pc = IF base_models' = <<>> THEN "return" ELSE "model_begin",
                          !.S_train = S_train, !.S_test = S_test]
    /\ budget' = budget - 1
    /\ log' = <<>>
    /\ UNCHANGED <<self, results>>

Free(h, id) == [k \in DOMAIN h \ {id} |-> h[k]]

\* S_test_i = np.zeros((self.X_test.shape[0], len(self.kf_n)))
OtherModelBegin ==
    /\ call.op = "other"
    /\ call.pc = "model_begin"
    /\ LET h0 == Free(heap, call.S_test_i)
       IN  /\ heap' = Alloc(h0, zeros2(Len(self.X_test), len_kf_n))
           /\ call' = [call EXCEPT !.S_test_i = NewId(h0), !.j = 1,
                          !.pc = IF Folds = <<>> THEN "model_end" ELSE "fit"]
    /\ UNCHANGED <<self, base_models, log, results, budget>>

\* model.fit(X_train_cv, y_train_cv)
OtherFit ==
    /\ call.op = "other"
    /\ call.pc = "fit"
    /\ LET rows == TrainSlice(Folds[call.j])
       IN  \/ \E e \in LibErrors :
                /\ call' = Raise(call, e)
                /\ log' = Append(log, Event("fit", call.i, call.j, rows, e))
                /\ base_models' = base_models
           \/ /\ rows = {}
              /\ call' = Raise(call, "ValueError")
              /\ log' = Append(log, Event("fit", call.i, call.j, rows, "ValueError"))
              /\ base_models' = base_models
           \/ /\ rows # {}
              /\ base_models' = [base_models EXCEPT ![call.i].state = FitState(@, rows)]
              /\ call' = [call EXCEPT !.pc = "predict_val"]
              /\ log' = Append(log, Event("fit", call.i, call.j, rows, "ok"))
    /\ UNCHANGED <<self, heap, results, budget>>

\* y_pred = model.predict(X_val_cv)[:]; S_train[val_index, i] = y_pred
OtherPredictVal ==
    /\ call.op = "other"
    /\ call.pc = "predict_val"
    /\ LET idx == ValSlice(Folds[call.j])
           model == base_models[call.i]
       IN  \/ \E e \in LibErrors :
                /\ call' = Raise(call, e)
                /\ log' = Append(log, Event("predict_val", call.i, call.j, model.state.rows, e))
                /\ heap' = heap
           \/ /\ call' = [call EXCEPT !.pc = "predict_test"]
              /\ log' = Append(log, Event("predict_val", call.i, call.j, model.state.rows, "ok"))
              /\ heap' = [heap EXCEPT ![call.S_train] =
                    SetRowsCol(@, idx, call.i,
                       PredictRows(model.kind, self.y, model.state, self.X_train, idx))]
    /\ UNCHANGED <<self, base_models, results, budget>>

\* mutant: the loop over the models inside the loop over the folds
NextInnerModelFirst(c) ==
    IF c.i < Len(base_models)
    THEN [c EXCEPT !.i = @ + 1, !.pc = "fit"]
    ELSE [c EXCEPT !.i = 1, !.j = @ + 1,
                   !.pc = IF c.j < Len(Folds) THEN "fit" ELSE "model_end"]

\* after the body of the loop over the folds of one model
NextInner(c) ==
    [c EXCEPT !.j = @ + 1, !.pc = IF c.j < Len(Folds) THEN "fit" ELSE "model_end"]

\* S_test_i[:, j] = model.predict(self.X_test)[:]
OtherPredictTest ==
    /\ call.op = "other"
    /\ call.pc = "predict_test"
    /\ LET model == base_models[call.i]
       IN  \/ \E e \in LibErrors :
                /\ call' = Raise(call, e)
                /\ log' = Append(log, Event("predict_test", call.i, call.j, model.state.rows, e))
                /\ heap' = heap
           \/ /\ call' = NextInner(call)
              /\ log' = Append(log, Event("predict_test", call.i, call.j, model.state.rows, "ok"))
              /\ heap' = [heap EXCEPT ![call.S_test_i] =
                    SetCol(@, call.j, PredictAll(model.kind, self.y, model.state, self.X_test))]
    /\ UNCHANGED <<self, base_models, results, budget>>

\* after the body of the loop over the models
NextModel(c) ==
    [c EXCEPT !.i = @ + 1, !.pc = IF c.i < Len(base_models) THEN "model_begin" ELSE "return"]

\* S_test[:, i] = S_test_i.mean(1)
OtherModelEnd ==
    /\ call.op = "other"
    /\ call.pc = "model_end"
    /\ heap' = [heap EXCEPT ![call.S_test] = SetCol(@, call.i, MeanAxis1(heap[call.S_test_i]))]
    /\ call' = NextModel(call)
    /\ UNCHANGED <<self, base_models, log, results, budget>>

\* return S_train, S_test
OtherReturn ==
    /\ call.op = "other"
    /\ call.pc = "return"
    /\ results' = Append(results, Returned(call, base_models))
    /\ heap' = Collect(heap, results')
    /\ call' = NoCall
    /\ log' = <<>>
    /\ UNCHANGED <<self, base_models, budget>>

OtherRaise == Unwind("other")

Next ==
    \/ run_lgbm_stacker \/ LgbmTrain \/ LgbmPredictVal \/ LgbmPredictTest
    \/ LgbmFinish \/ LgbmReturn \/ LgbmRaise
    \/ run_xgboost_stacker \/ XgbTrain \/ XgbPredictVal \/ XgbPredictTest
    \/ XgbFinish \/ XgbReturn \/ XgbRaise
    \/ run_other_stackers \/ OtherModelBegin \/ OtherFit \/ OtherPredictVal
    \/ OtherPredictTest \/ OtherModelEnd \/ OtherReturn \/ OtherRaise

Spec == Init /\ [][Next]_vars


(* ------------------------------ properties ------------------------------ *)
Boosters == {"lgbm", "xgboost"}
NFolds == Len(Folds)
TestRows == 1..Len(self.X_test)

\* validation sets pairwise disjoint, covering every training row, and every
\* fold training on the complement of its validation set
WellFormed ==
    /\ \A j1, j2 \in 1..NFolds : j1 # j2 => Folds[j1].val \cap Folds[j2].val = {}
    /\ UNION {Folds[j].val : j \in 1..NFolds} = TrainRows
    /\ \A j \in 1..NFolds : Folds[j].train = TrainRows \ Folds[j].val

FoldOf(r) == CHOOSE j \in 1..NFolds : r \in Folds[j].val

\* what a learner of the kind predicts for training row r when fitted on the
\* training rows of the fold that validates r
OutOfFold(kind, r) == Predict(kind, self.y, Folds[FoldOf(r)].train, self.X_train[r])

\* mean over the folds of what the learners fitted in each fold predict for test row t
FoldMean(kind, t) ==
    RDiv(SumSeq([j \in 1..NFolds |-> Predict(kind, self.y, Folds[j].train, self.X_test[t])]),
         NFolds)

AllOk == \A k \in 1..Len(log) : log[k].out = "ok"
AtReturn == call.pc = "return"
STrain == heap[call.S_train].a
STest == heap[call.S_test].a

\* C1: with a well-formed partition, every prediction written for a validation
\* row comes from a state fitted on exactly the training rows of that row's
\* fold, which do not contain the row; what an operation returns for training
\* row r is the out-of-fold prediction for r (in the boosters, converted to the
\* element type of S_train), and for a mean-predicting base model it is the
\* mean of the targets over the training rows of r's fold.
C1_OutOfFold ==
    WellFormed =>
      /\ \A k \in 1..Len(log) :
            (log[k].f = "predict_val" /\ log[k].out = "ok") =>
               /\ log[k].rows = Folds[log[k].k].train
               /\ log[k].rows \cap Folds[log[k].k].val = {}
      /\ (AtReturn /\ call.op \in Boosters) =>
            \A r \in TrainRows :
               STrain[r].v = AsType(self.dtype, OutOfFold(call.params, r))
      /\ (AtReturn /\ call.op = "other") =>
            \A r \in TrainRows, i \in 1..Len(base_models) :
               /\ STrain[r][i].v = OutOfFold(base_models[i].kind, r)
               /\ base_models[i].kind = "mean" =>
                     STrain[r][i].v = MeanOf(self.y, Folds[FoldOf(r)].train)

C1_Witness ==
    /\ AtReturn /\ call.op = "other" /\ WellFormed /\ NFolds = 2
    /\ Len(self.X_train) = 3
    /\ \E i \in 1..Len(base_models) :
          /\ base_models[i].kind = "mean"
          /\ \E r1, r2 \in TrainRows : STrain[r1][i].v # STrain[r2][i].v

\* C2: with a well-formed partition, every position of the returned training
\* output (every position of every model column in run_other_stackers) has
\* been assigned exactly once.
C2_WrittenOnce ==
    (AtReturn /\ WellFormed) =>
       \A r \in TrainRows :
          IF call.op \in Boosters THEN STrain[r].w = 1
          ELSE \A i \in 1..Len(base_models) : STrain[r][i].w = 1

C2_Witness ==
    /\ AtReturn /\ WellFormed /\ NFolds = 3
    /\ call.op = "other" /\ Len(base_models) = 2

\* C3: the value returned for a test row is the mean over the folds of the
\* predictions that the models fitted in the folds make for that row (per
\* model column in run_other_stackers).
C3_TestMean ==
    AtReturn =>
       \A t \in TestRows :
          IF call.op \in Boosters THEN STest[t].v = FoldMean(call.params, t)
          ELSE \A i \in 1..Len(base_models) :
                  STest[t][i].v = FoldMean(base_models[i].kind, t)

C3_Witness ==
    /\ AtReturn /\ NFolds = 3 /\ call.op = "lgbm"
    /\ \E j1, j2 \in 1..NFolds :
          MeanOf(self.y, Folds[j1].train) # MeanOf(self.y, Folds[j2].train)

\* C4: an operation whose learners do not fail returns, with one row of
\* S_train per training row and one row of S_test per test row, and in
\* run_other_stackers one column per base model.
C4_Shapes ==
    (call.pc \in {"return", "raised"} /\ AllOk) =>
       /\ AtReturn
       /\ Len(STrain) = Len(self.X_train)
       /\ Len(STest) = Len(self.X_test)
       /\ call.op = "other" =>
             /\ \A r \in TrainRows : Len(STrain[r]) = Len(base_models)
             /\ \A t \in TestRows : Len(STest[t]) = Len(base_models)

LastEvent == log[Len(log)]

\* C5: when a fit or a predict fails the call makes no further library call,
\* stops with exactly that error, and the caller gets the error and no output.
C5_Abort ==
    [][ /\ (log' # <<>> /\ log'[Len(log')].out # "ok") =>
              /\ call'.pc = "raised"
              /\ call'.error = log'[Len(log')].out
              /\ \A k \in 1..(Len(log') - 1) : log'[k].out = "ok"
              /\ results' = results
        /\ call.pc = "raised" =>
              /\ call'.pc = "idle"
              /\ log' = <<>>
              /\ budget' = budget
              /\ Len(results') = Len(results) + 1
              /\ results'[Len(results')].status = "raised"
              /\ results'[Len(results')].error = call.error
              /\ results'[Len(results')].S_train = 0
              /\ results'[Len(results')].S_test = 0
              /\ DOMAIN heap' = DOMAIN heap \cap Referenced(results)
      ]_vars

C5_Witness ==
    /\ call.pc = "raised" /\ call.error \in LibErrors
    /\ call.op = "other" /\ call.i = 2
    /\ LastEvent.f = "predict_val"

\* C6: two calls of the same operation with the same arguments on the same
\* orchestrator return the same S_train and the same S_test.
C6_Deterministic ==
    \A a, b \in 1..Len(results) :
       (/\ results[a].status = "returned" /\ results[b].status = "returned"
        /\ results[a].op = results[b].op /\ results[a].params = results[b].params) =>
          /\ heap[results[a].S_train] = heap[results[b].S_train]
          /\ heap[results[a].S_test] = heap[results[b].S_test]

C6_Witness ==
    /\ Len(results) = 2 /\ NFolds = 2 /\ WellFormed
    /\ results[1].status = "returned" /\ results[2].status = "returned"
    /\ results[1].op = "other" /\ results[2].op = "other"
    /\ Len(results[1].params) = 2
    /\ results[1].S_train # results[2].S_train

\* C7: no step changes the dataset or the fold partition of the orchestrator;
\* the outputs a call returns are arrays that no earlier result holds, and no
\* later step changes an earlier result or the arrays it holds.
C7_Frame ==
    [][ /\ self' = self
        /\ \A k \in 1..Len(results) :
              /\ Len(results') >= k /\ results'[k] = results[k]
              /\ results[k].status = "returned" =>
                    /\ heap'[results[k].S_train] = heap[results[k].S_train]
                    /\ heap'[results[k].S_test] = heap[results[k].S_test]
        /\ (Len(results') > Len(results) /\ results'[Len(results')].status = "returned") =>
              LET new == results'[Len(results')]
              IN  /\ new.S_train # new.S_test
                  /\ {new.S_train, new.S_test} \cap Referenced(results) = {}
      ]_vars

C7_Witness ==
    /\ Len(results) = 2
    /\ results[1].status = "returned" /\ results[2].status = "returned"
    /\ results[1].op = "lgbm" /\ results[2].op = "other"
    /\ heap[results[1].S_train] # heap[results[2].S_train]

\* C8: with the single fold that trains and validates on every training row,
\* an operation whose learners do not fail returns, for every training row,
\* the prediction of the model fitted on all training rows, and for every test
\* row that model's prediction.
C8_SingleFold ==
    (Folds = RefitFold(Len(self.X_train)) /\ call.pc \in {"return", "raised"} /\ AllOk) =>
       /\ AtReturn
       /\ \A r \in TrainRows :
             IF call.op \in Boosters
             THEN STrain[r].v = Predict(call.params, self.y, TrainRows, self.X_train[r])
             ELSE \A i \in 1..Len(base_models) :
                     STrain[r][i].v = Predict(base_models[i].kind, self.y, TrainRows, self.X_train[r])
       /\ \A t \in TestRows :
             IF call.op \in Boosters
             THEN STest[t].v = Predict(call.params, self.y, TrainRows, self.X_test[t])
             ELSE \A i \in 1..Len(base_models) :
                     STest[t][i].v = Predict(base_models[i].kind, self.y, TrainRows, self.X_test[t])

\* C9: in the boosters, once the predictions for a fold's validation rows are
\* written, S_train holds at each of these rows exactly the predicted value.
C9_StoredUnchanged ==
    (call.op \in Boosters /\ call.pc = "predict_test") =>
       \A r \in Folds[call.i].val :
          STrain[r].v = Predict(call.params, self.y, call.model_fold.rows, self.X_train[r])

\* the library call at position n of a run over all models and folds
CallNames == <<"fit", "predict_val", "predict_test">>
ModelMajor(n) ==
    [f |-> CallNames[((n - 1) % 3) + 1],
     m |-> ((n - 1) \div (3 * NFolds)) + 1,
     k |-> (((n - 1) % (3 * NFolds)) \div 3) + 1]

\* C10: run_other_stackers calls the library in model-major order: for each
\* model in turn and each fold in partition order, fit on the fold's training
\* rows, predict the validation rows, predict the test set, both predictions
\* from the state of that fit; a completed run made one fit per model and
\* fold, and column i of both outputs holds predictions of model i.
C10_ModelMajor ==
    call.op = "other" =>
       /\ \A n \in 1..Len(log) :
             /\ log[n].f = ModelMajor(n).f
             /\ log[n].m = ModelMajor(n).m
             /\ log[n].k = ModelMajor(n).k
             /\ log[n].rows = Folds[log[n].k].train
       /\ AtReturn =>
             /\ Len(log) = 3 * Len(base_models) * NFolds
             /\ Cardinality({n \in 1..Len(log) : log[n].f = "fit"}) = Len(base_models) * NFolds
             /\ \A i \in 1..Len(base_models) :
                   /\ \A t \in TestRows : STest[t][i].v = FoldMean(base_models[i].kind, t)
                   /\ \A j \in 1..NFolds : \A r \in Folds[j].val :
                         \E j2 \in 1..NFolds :
                            /\ r \in Folds[j2].val
                            /\ STrain[r][i].v =
                                  Predict(base_models[i].kind, self.y, Folds[j2].train, self.X_train[r])

C10_Witness ==
    /\ AtReturn /\ call.op = "other" /\ Len(base_models) = 2 /\ NFolds = 3
    /\ base_models[1].kind # base_models[2].kind

====
